---- MODULE Spec2Model ----
(***************************************************************************)
(* Model of the two resource-allocation programs of the repository:        *)
(*   - expertsystem.py: ExpertSystem (record keeper) and the handlers of   *)
(*     BarangayResourceApp that drive it;                                  *)
(*   - simulation.py: DisasterAllocationGUI, its worker thread and         *)
(*     simulate_allocation.                                                *)
(* The two are separate applications: a behaviour is a run of one of them  *)
(* (variable app), the state of the other stays as constructed.            *)
(***************************************************************************)
EXTENDS Integers, Sequences, FiniteSets, TLC

(***************************************************************************)
(* Bounds of the model.                                                    *)
(***************************************************************************)
MaxAdds == 2         \* households entered in one session of the record keeper
MaxAvail == 2        \* units available per resource type at start-up
MaxPasses == 2       \* allocation passes of the record keeper in one session
MaxGenerated == 2    \* households generated for one simulation run
MaxRuns == 2         \* clicks on Run Simulation that start a worker thread
MaxMembers == 6      \* members of a household read from data/households.csv

(***************************************************************************)
(* Program constants.                                                      *)
(***************************************************************************)
FoodPackCost == 500
HygieneKitCost == 300
MedicalKitCost == 400
SchoolSuppliesCost == 250
ShelterKitCost == 600

\* What the household form is filled with: members and ages. The ages cover
\* the age bands of the code (< 5, 5..17, 18..60, > 60); the last two inputs
\* declare more members than they list ages, and leave the ages empty.
FormInputs ==
    { <<1, <<30>>>>,
      <<1, <<70>>>>,
      <<2, <<3, 30>>>>,
      <<3, <<30, 30, 30>>>>,
      <<6, <<3, 3, 10, 30, 70, 70>>>>,
      <<2, <<30>>>>,
      <<0, <<>>>> }

\* Budgets the programs start a pass with: the cost of one food pack and one
\* hygiene kit, a budget below the cost of two food packs, an ample one.
BudgetChoices == {800, 900, 10000}

VARIABLES
    app,                  \* which application runs: "expertsystem" or "simulation"
    resources,            \* self.resources: type -> [cost, available]
    budget,               \* self.budget
    households,           \* ExpertSystem.households
    allocated_resources,  \* ExpertSystem.allocated_resources: id -> (type -> quantity)
    total_cost,           \* ExpertSystem.total_cost
    pc,                   \* position of the record keeper's handler
    sorted_households,    \* local of allocate_resources
    remaining_budget,     \* local of allocate_resources
    h_pos,                \* index of the household being processed
    r_pos,                \* index of the resource block being evaluated
    saved,                \* the files under data/ as save_data last wrote them
    trace,                \* history: evaluations of the latest pass, in order
    hist,                 \* history: counters and the summaries of the last two passes
    simulation_running,   \* DisasterAllocationGUI.simulation_running
    result_queue,         \* DisasterAllocationGUI.result_queue
    allocations,          \* DisasterAllocationGUI.allocations
    pending,              \* check_simulation_progress callbacks scheduled by root.after
    workers               \* the simulation_worker threads started, with their locals

esVars == <<households, allocated_resources, total_cost, pc, sorted_households,
            remaining_budget, h_pos, r_pos, saved, trace>>
simVars == <<simulation_running, result_queue, allocations, pending, workers>>
vars == <<app, resources, budget, hist, esVars, simVars>>

(***************************************************************************)
(* ExpertSystem: catalogue and pure functions.                             *)
(***************************************************************************)
ES_SCAN == <<"Food Pack", "Hygiene Kit", "Medical Kit", "School Supplies">>

ES_TYPES == {ES_SCAN[i] : i \in 1..Len(ES_SCAN)}

ES_COST == [t \in ES_TYPES |->
              CASE t = "Food Pack" -> FoodPackCost
                [] t = "Hygiene Kit" -> HygieneKitCost
                [] t = "Medical Kit" -> MedicalKitCost
                [] OTHER -> SchoolSuppliesCost]

EmptyAlloc == <<>>

RECURSIVE SumSeq(_)
RECURSIVE SortedByPriority(_)
RECURSIVE FracLess(_, _, _, _)
SumSeq(s) == IF s = <<>> THEN 0 ELSE s[1] + SumSeq(Tail(s))

\* Mutant: a member aged 60 counts as elderly.
AgeScore_elderly_from_60(age) ==
    IF age < 5 THEN 30
    ELSE IF age < 18 THEN 20
    ELSE IF age >= 60 THEN 25
    ELSE 0

AgeScore(age) ==
    IF age < 5 THEN 30
    ELSE IF age < 18 THEN 20
    ELSE IF age > 60 THEN 25
    ELSE 0

calculate_priority(members, ages) ==
    members * 10 + SumSeq([i \in 1..Len(ages) |-> AgeScore(ages[i])])

\* sorted(self.households, key=priority_score, reverse=True): Python's sort is
\* stable, and reverse=True keeps the original order of equal keys.
\* Mutant: the sort is ascending.
InsertByPriority_ascending(s, h) ==
    LET k == Cardinality({i \in 1..Len(s) : s[i].priority_score <= h.priority_score})
    IN  SubSeq(s, 1, k) \o <<h>> \o SubSeq(s, k + 1, Len(s))

\* Mutant: a household goes before those of equal priority already sorted.
InsertByPriority_before_equals(s, h) ==
    LET k == Cardinality({i \in 1..Len(s) : s[i].priority_score > h.priority_score})
    IN  SubSeq(s, 1, k) \o <<h>> \o SubSeq(s, k + 1, Len(s))

InsertByPriority(s, h) ==
    LET k == Cardinality({i \in 1..Len(s) : s[i].priority_score >= h.priority_score})
    IN  SubSeq(s, 1, k) \o <<h>> \o SubSeq(s, k + 1, Len(s))

SortedByPriority(hs) ==
    IF hs = <<>> THEN <<>>
    ELSE InsertByPriority(SortedByPriority(SubSeq(hs, 1, Len(hs) - 1)), hs[Len(hs)])

children_under_5(h) == Cardinality({i \in 1..Len(h.ages) : h.ages[i] < 5})
school_age(h) == Cardinality({i \in 1..Len(h.ages) : 5 <= h.ages[i] /\ h.ages[i] < 18})
elderly(h) == Cardinality({i \in 1..Len(h.ages) : h.ages[i] > 60})

\* Mutant: the food packs are rounded down.
food_packs_floor(h) == h.members \div 3

food_packs(h) == (h.members + 2) \div 3
hygiene_kits(h) == (h.members + 3) \div 4

\* Mutant: the medical kits never escalate to two.
medical_kits_at_most_one(h) ==
    LET vulnerable_count == children_under_5(h) + elderly(h)
    IN  IF vulnerable_count < 1 THEN vulnerable_count ELSE 1

medical_kits(h) ==
    LET vulnerable_count == children_under_5(h) + elderly(h)
    IN  IF vulnerable_count >= 3 THEN 2
        ELSE IF vulnerable_count < 1 THEN vulnerable_count ELSE 1

\* Mutant: a need is cut down to what is left in stock.
ES_Need_in_stock(h, t) ==
    LET need == CASE t = "Food Pack" -> food_packs(h)
                  [] t = "Hygiene Kit" -> hygiene_kits(h)
                  [] t = "Medical Kit" -> medical_kits(h)
                  [] OTHER -> school_age(h)
    IN  IF need <= resources[t].available THEN need ELSE resources[t].available

ES_Need(h, t) ==
    CASE t = "Food Pack" -> food_packs(h)
      [] t = "Hygiene Kit" -> hygiene_kits(h)
      [] t = "Medical Kit" -> medical_kits(h)
      [] OTHER -> school_age(h)

\* Mutant: the budget is not tested.
check_resource_availability_no_budget(res, resource_type, quantity, bud) ==
    IF quantity <= 0 THEN FALSE
    ELSE quantity <= res[resource_type].available

\* Mutant: the availability is not tested.
check_resource_availability_no_stock(res, resource_type, quantity, bud) ==
    IF quantity <= 0 THEN FALSE
    ELSE quantity * res[resource_type].cost <= bud

check_resource_availability(res, resource_type, quantity, bud) ==
    IF quantity <= 0 THEN FALSE
    ELSE LET cost == quantity * res[resource_type].cost
         IN  quantity <= res[resource_type].available /\ cost <= bud

(***************************************************************************)
(* History of the passes, kept for the claims only: the program never      *)
(* reads it. prev and cur summarise the last two passes run in a row; an   *)
(* edit of the household list forgets both. assigned is the set of ids     *)
(* given out so far, reused whether one was given out twice, refused        *)
(* whether the household form was just refused, stopped the worker threads *)
(* that were running when Stop Simulation was clicked.                     *)
(***************************************************************************)
NoPass ==
    [valid |-> FALSE, done |-> FALSE, input |-> <<>>, start_budget |-> 0,
     start_available |-> <<>>, ledger |-> <<>>, remaining |-> 0]

StartOfPass(input, bud, available) ==
    [valid |-> TRUE, done |-> FALSE, input |-> input, start_budget |-> bud,
     start_available |-> available, ledger |-> <<>>, remaining |-> 0]

EndOfPass(p, ledger, remaining) ==
    [p EXCEPT !.done = TRUE, !.ledger = ledger, !.remaining = remaining]

(***************************************************************************)
(* ExpertSystem.save_data: the four files under data/. allocations.csv     *)
(* holds one row per household id, resource and quantity, so an entry      *)
(* without any resource leaves no row.                                     *)
(***************************************************************************)
AllocationRows(ar) ==
    UNION {{<<k, t, ar[k][t]>> : t \in DOMAIN ar[k]} : k \in DOMAIN ar}

FilesOf(hs, res, ar, bud) ==
    [households |-> hs, resources |-> res, allocations |-> AllocationRows(ar),
     budget |-> bud]

\* The simulator keeps no files.
NoFiles == FilesOf(<<>>, <<>>, <<>>, 0)

save_data == saved' = FilesOf(households', resources', allocated_resources', budget')

(***************************************************************************)
(* Start-up of the record keeper: ExpertSystem.__init__ followed by        *)
(* load_data, which reads the budget and the availability left by the      *)
(* previous session; no household file yet.                                *)
(***************************************************************************)
ES_Init ==
    /\ app = "expertsystem"
    /\ \E a \in 1..MaxAvail :
          resources = [t \in ES_TYPES |-> [cost |-> ES_COST[t], available |-> a]]
    /\ budget \in BudgetChoices
    /\ households = <<>>
    /\ allocated_resources = <<>>
    /\ total_cost = 0
    /\ pc = "idle"
    /\ sorted_households = <<>>
    /\ remaining_budget = 0
    /\ h_pos = 0
    /\ r_pos = 0
    /\ saved = FilesOf(households, resources, allocated_resources, budget)
    /\ trace = <<>>
    /\ hist = [adds |-> 0, assigned |-> {}, reused |-> FALSE, refused |-> FALSE,
               stopped |-> {}, passes |-> 0, prev |-> NoPass, cur |-> NoPass]
    /\ simulation_running = FALSE
    /\ result_queue = <<>>
    /\ allocations = <<>>
    /\ pending = 0
    /\ workers = <<>>

(***************************************************************************)
(* Household entry and removal.                                            *)
(***************************************************************************)
ExpertSystem_add_household(members, ages) ==
    LET household_id == Len(households) + 1
        household == [id |-> household_id, members |-> members, ages |-> ages,
                      priority_score |-> calculate_priority(members, ages)]
    IN  /\ households' = Append(households, household)
        /\ allocated_resources' = (household_id :> EmptyAlloc) @@ allocated_resources
        /\ save_data

\* The checks of the form handler: the ages are not empty and there is one
\* age per declared member.
\* Mutant: the form is not checked.
form_accepts_any(members, ages) == TRUE

form_accepts(members, ages) == ages # <<>> /\ Len(ages) = members

\* BarangayResourceApp.add_household: the form handler. An input that fails
\* the checks is refused with a message box; an accepted one is stored and
\* saved. The form holds one of inputs; at most limit households are entered
\* in a session.
add_household_from(inputs, limit) ==
    /\ app = "expertsystem"
    /\ pc = "idle"
    /\ hist.adds < limit
    /\ UNCHANGED <<simVars, app, resources, budget, total_cost, pc, sorted_households,
                   remaining_budget, h_pos, r_pos>>
    /\ \E input \in inputs :
          LET members == input[1]
              ages == input[2]
          IN  IF ~form_accepts(members, ages)
              THEN /\ hist' = [hist EXCEPT !.refused = TRUE]
                   /\ UNCHANGED <<households, allocated_resources, saved, trace>>
              ELSE /\ ExpertSystem_add_household(members, ages)
                   /\ trace' = <<>>
                   /\ hist' = [hist EXCEPT !.adds = @ + 1,
                                  !.assigned = @ \cup {Len(households) + 1},
                                  !.reused = @ \/ (Len(households) + 1) \in hist.assigned,
                                  !.refused = FALSE,
                                  !.prev = NoPass, !.cur = NoPass]

add_household_within(limit) == add_household_from(FormInputs, limit)

add_household == add_household_within(MaxAdds)

RECURSIVE WithoutId(_, _)
WithoutId(hs, h_id) ==
    IF hs = <<>> THEN <<>>
    ELSE (IF Head(hs).id # h_id THEN <<Head(hs)>> ELSE <<>>) \o WithoutId(Tail(hs), h_id)

\* BarangayResourceApp.remove_household: the selected row names an id shown
\* in the household list.
remove_household ==
    /\ app = "expertsystem"
    /\ pc = "idle"
    /\ \E i \in 1..Len(households) :
          LET h_id == households[i].id
          IN  /\ households' = WithoutId(households, h_id)
              /\ allocated_resources' =
                    [k \in (DOMAIN allocated_resources) \ {h_id} |-> allocated_resources[k]]
    /\ trace' = <<>>
    /\ hist' = [hist EXCEPT !.refused = FALSE, !.prev = NoPass, !.cur = NoPass]
    /\ UNCHANGED <<simVars, app, resources, budget, total_cost, pc, sorted_households,
                   remaining_budget, h_pos, r_pos>>
    /\ save_data

(***************************************************************************)
(* ExpertSystem.allocate_resources, one step per block of the method.      *)
(***************************************************************************)
\* allocate_resources_gui (guard: some household) and the head of
\* allocate_resources: sort, reset the ledger and the total, copy the budget.
allocate_resources_begin ==
    /\ app = "expertsystem"
    /\ pc = "idle"
    /\ households # <<>>
    /\ hist.passes < MaxPasses
    /\ sorted_households' = SortedByPriority(households)
    /\ allocated_resources' =
          [k \in {households[i].id : i \in 1..Len(households)} |-> EmptyAlloc]
    /\ total_cost' = 0
    /\ remaining_budget' = budget
    /\ h_pos' = 1
    /\ r_pos' = 0
    /\ pc' = "household"
    /\ trace' = <<>>
    /\ hist' = [hist EXCEPT !.passes = @ + 1, !.refused = FALSE, !.prev = hist.cur,
                            !.cur = StartOfPass(households, budget,
                                       [t \in ES_TYPES |-> resources[t].available])]
    /\ UNCHANGED <<simVars, app, resources, budget, households, saved>>

\* Top of the loop body: the household's ledger entry is emptied.
household_begin ==
    /\ app = "expertsystem"
    /\ pc = "household"
    /\ h_pos <= Len(sorted_households)
    /\ LET h_id == sorted_households[h_pos].id
       IN  allocated_resources' = [allocated_resources EXCEPT ![h_id] = EmptyAlloc]
    /\ r_pos' = 1
    /\ pc' = "scan"
    /\ UNCHANGED <<simVars, app, resources, budget, households, total_cost, sorted_households,
                   remaining_budget, h_pos, saved, trace, hist>>

\* One of the four resource blocks of the loop body.
evaluate_resource ==
    /\ app = "expertsystem"
    /\ pc = "scan"
    /\ LET household == sorted_households[h_pos]
           h_id == household.id
           t == ES_SCAN[r_pos]
           quantity == ES_Need(household, t)
           commit == check_resource_availability(resources, t, quantity, remaining_budget)
       IN  /\ IF commit
              THEN /\ allocated_resources' =
                         [allocated_resources EXCEPT ![h_id] = (t :> quantity) @@ @]
                   /\ remaining_budget' = remaining_budget - quantity * resources[t].cost
                   /\ total_cost' = total_cost + quantity * resources[t].cost
                   /\ resources' = [resources EXCEPT ![t].available = @ - quantity]
              ELSE UNCHANGED <<allocated_resources, remaining_budget, total_cost, resources>>
           /\ trace' = Append(trace, [pos |-> h_pos, id |-> h_id,
                                      priority |-> household.priority_score,
                                      type |-> t, quantity |-> quantity,
                                      committed |-> commit])
    /\ IF r_pos < Len(ES_SCAN)
       THEN /\ r_pos' = r_pos + 1
            /\ UNCHANGED <<pc, h_pos>>
       ELSE /\ r_pos' = 0
            /\ h_pos' = h_pos + 1
            /\ pc' = "household"
    /\ UNCHANGED <<simVars, app, budget, households, sorted_households, saved, hist>>

\* Mutant: the pass writes what is left of the budget back to self.budget.
allocate_resources_end_spends_budget ==
    /\ app = "expertsystem"
    /\ pc = "household"
    /\ h_pos > Len(sorted_households)
    /\ pc' = "idle"
    /\ sorted_households' = <<>>
    /\ h_pos' = 0
    /\ budget' = remaining_budget
    /\ hist' = [hist EXCEPT !.cur = EndOfPass(@, allocated_resources, remaining_budget)]
    /\ UNCHANGED <<simVars, app, resources, households, allocated_resources, total_cost,
                   remaining_budget, r_pos, trace>>
    /\ save_data

\* Mutant: the loop may be left once the first household is settled.
allocate_resources_end_early ==
    /\ app = "expertsystem"
    /\ pc = "household"
    /\ h_pos > 1
    /\ pc' = "idle"
    /\ sorted_households' = <<>>
    /\ h_pos' = 0
    /\ hist' = [hist EXCEPT !.cur = EndOfPass(@, allocated_resources, remaining_budget)]
    /\ UNCHANGED <<simVars, app, resources, budget, households, allocated_resources, total_cost,
                   remaining_budget, r_pos, trace>>
    /\ save_data

\* End of the loop: save and return (allocated_resources, remaining_budget).
allocate_resources_end ==
    /\ app = "expertsystem"
    /\ pc = "household"
    /\ h_pos > Len(sorted_households)
    /\ pc' = "idle"
    /\ sorted_households' = <<>>
    /\ h_pos' = 0
    /\ hist' = [hist EXCEPT !.cur = EndOfPass(@, allocated_resources, remaining_budget)]
    /\ UNCHANGED <<simVars, app, resources, budget, households, allocated_resources, total_cost,
                   remaining_budget, r_pos, trace>>
    /\ save_data

ES_Next ==
    \/ add_household
    \/ remove_household
    \/ allocate_resources_begin
    \/ household_begin
    \/ evaluate_resource
    \/ allocate_resources_end

(***************************************************************************)
(* DisasterAllocationGUI: catalogue, Bayesian estimates, Household.        *)
(* The code computes the estimates in floating point; the model computes   *)
(* them as exact fractions num/den over the priors in thousandths and the  *)
(* likelihoods in hundredths.                                              *)
(***************************************************************************)
SIM_SCAN == <<"Food Pack", "Hygiene Kit", "Medical Kit", "Shelter Kit">>

SIM_TYPES == {SIM_SCAN[i] : i \in 1..Len(SIM_SCAN)}

SIM_COST == [t \in SIM_TYPES |->
               CASE t = "Food Pack" -> FoodPackCost
                 [] t = "Hygiene Kit" -> HygieneKitCost
                 [] t = "Medical Kit" -> MedicalKitCost
                 [] OTHER -> ShelterKitCost]

size_priors == (2 :> 113) @@ (3 :> 169) @@ (4 :> 452) @@ (5 :> 226) @@ (6 :> 30) @@ (7 :> 10)

vulnerability_priors == [low |-> 3, medium |-> 4, high |-> 3]

\* vulnerability_likelihoods[true_level][reported]
vulnerability_likelihoods ==
    [low    |-> [low |-> 80, medium |-> 15, high |-> 5],
     medium |-> [low |-> 10, medium |-> 80, high |-> 10],
     high   |-> [low |-> 5, medium |-> 15, high |-> 80]]

vulnerability_weights == [low |-> 1, medium |-> 2, high |-> 3]

RECURSIVE SumFn(_, _)
SumFn(f, S) ==
    IF S = {} THEN 0
    ELSE LET x == CHOOSE y \in S : TRUE IN f[x] + SumFn(f, S \ {x})

bayesian_vulnerability_score(reported) ==
    LET posterior == [true_level \in DOMAIN vulnerability_priors |->
                         vulnerability_likelihoods[true_level][reported]
                            * vulnerability_priors[true_level]]
        total == SumFn(posterior, DOMAIN posterior)
    IN  [num |-> SumFn([k \in DOMAIN posterior |-> vulnerability_weights[k] * posterior[k]],
                       DOMAIN posterior),
         den |-> total]

size_likelihood(true_size, reported_size) ==
    LET diff == IF true_size >= reported_size THEN true_size - reported_size
                ELSE reported_size - true_size
    IN  IF diff = 0 THEN 70 ELSE IF diff = 1 THEN 20 ELSE IF diff = 2 THEN 10 ELSE 1

\* Mutant: the total leaves out the weight of the reported size itself.
bayesian_expected_members_short_total(reported_size) ==
    LET posterior == [true_size \in DOMAIN size_priors |->
                         size_likelihood(true_size, reported_size) * size_priors[true_size]]
        total == SumFn(posterior, DOMAIN posterior \ {reported_size})
    IN  [num |-> SumFn([k \in DOMAIN posterior |-> k * posterior[k]], DOMAIN posterior),
         den |-> total]

bayesian_expected_members(reported_size) ==
    LET posterior == [true_size \in DOMAIN size_priors |->
                         size_likelihood(true_size, reported_size) * size_priors[true_size]]
        total == SumFn(posterior, DOMAIN posterior)
    IN  [num |-> SumFn([k \in DOMAIN posterior |-> k * posterior[k]], DOMAIN posterior),
         den |-> total]

\* a/b < c/d for a, c >= 0 and b, d > 0, by the continued-fraction expansion
\* (no product of the operands, which would leave the 32-bit range).
FracLess(a, b, c, d) ==
    LET qa == a \div b
        qc == c \div d
        ra == a % b
        rc == c % d
    IN  IF qa # qc THEN qa < qc
        ELSE IF rc = 0 THEN FALSE
        ELSE IF ra = 0 THEN TRUE
        ELSE FracLess(d, rc, b, ra)

\* A priority is k + num/den with 0 <= num < den.
PriorityLess(p, q) ==
    IF p.k # q.k THEN p.k < q.k ELSE FracLess(p.num, p.den, q.num, q.den)

\* Household.calculate_priority:
\*   expected_members*5 + children*10 + elderly*15 + expected_vulnerability_score*25
Household_calculate_priority(expected_members, children, elderly_count, score) ==
    LET fnum == 5 * expected_members.num * score.den + 25 * score.num * expected_members.den
        fden == expected_members.den * score.den
    IN  [k |-> 10 * children + 15 * elderly_count + (fnum \div fden),
         num |-> fnum % fden, den |-> fden]

\* Household.__init__
Household(id, true_ages, reported_size, reported_vulnerability) ==
    LET children == Cardinality({i \in 1..Len(true_ages) : true_ages[i] < 18})
        elderly_count == Cardinality({i \in 1..Len(true_ages) : true_ages[i] > 60})
        expected_members == bayesian_expected_members(reported_size)
        score == bayesian_vulnerability_score(reported_vulnerability)
    IN  [id |-> id, ages |-> true_ages, reported_size |-> reported_size,
         true_size |-> Len(true_ages), children |-> children, elderly |-> elderly_count,
         reported_vulnerability |-> reported_vulnerability,
         expected_members |-> expected_members,
         expected_vulnerability_score |-> score,
         priority |-> Household_calculate_priority(expected_members, children,
                                                   elderly_count, score)]

\* Household.__lt__: self.priority > other.priority
Household_lt(self, other) == PriorityLess(other.priority, self.priority)

(***************************************************************************)
(* heapq.heappush and heapq.heappop as simulate_allocation calls them, on  *)
(* a list whose Python position p is the sequence's position p + 1.        *)
(***************************************************************************)
RECURSIVE siftdown_loop(_, _, _, _)
siftdown_loop(heap, startpos, pos, newitem) ==
    IF pos > startpos
    THEN LET parentpos == (pos - 1) \div 2
             parent == heap[parentpos + 1]
         IN  IF Household_lt(newitem, parent)
             THEN siftdown_loop([heap EXCEPT ![pos + 1] = parent], startpos, parentpos, newitem)
             ELSE [heap EXCEPT ![pos + 1] = newitem]
    ELSE [heap EXCEPT ![pos + 1] = newitem]

siftdown(heap, startpos, pos) == siftdown_loop(heap, startpos, pos, heap[pos + 1])

RECURSIVE siftup_loop(_, _, _, _)
siftup_loop(heap, startpos, pos, newitem) ==
    LET endpos == Len(heap)
        childpos == 2 * pos + 1
        rightpos == childpos + 1
    IN  IF childpos < endpos
        THEN LET c == IF rightpos < endpos
                         /\ ~Household_lt(heap[childpos + 1], heap[rightpos + 1])
                      THEN rightpos ELSE childpos
             IN  siftup_loop([heap EXCEPT ![pos + 1] = heap[c + 1]], startpos, c, newitem)
        ELSE siftdown([heap EXCEPT ![pos + 1] = newitem], startpos, pos)

siftup(heap, pos) == siftup_loop(heap, pos, pos, heap[pos + 1])

heappush(heap, item) == siftdown(Append(heap, item), 0, Len(heap))

\* <<the item returned, the heap left>>
heappop(heap) ==
    LET lastelt == heap[Len(heap)]
        rest == SubSeq(heap, 1, Len(heap) - 1)
    IN  IF rest # <<>>
        THEN <<rest[1], siftup([rest EXCEPT ![1] = lastelt], 0)>>
        ELSE <<lastelt, rest>>

RECURSIVE PushAll(_, _)
PushAll(heap, hs) ==
    IF hs = <<>> THEN heap ELSE PushAll(heappush(heap, Head(hs)), Tail(hs))

(***************************************************************************)
(* Needs of a household in simulate_allocation.                            *)
(***************************************************************************)
\* int(round(num/den)): Python rounds halves to even.
RoundHalfEven(num, den) ==
    LET q == num \div den
        r == num % den
    IN  IF 2 * r < den THEN q
        ELSE IF 2 * r > den THEN q + 1
        ELSE IF q % 2 = 0 THEN q ELSE q + 1

Max(a, b) == IF a >= b THEN a ELSE b

SIM_Need(h, item) ==
    CASE item = "Food Pack" ->
            Max(1, RoundHalfEven(h.expected_members.num, 3 * h.expected_members.den))
      [] item = "Hygiene Kit" ->
            Max(1, RoundHalfEven(h.expected_members.num, 4 * h.expected_members.den))
      [] item = "Medical Kit" ->
            IF h.elderly > 0 \/ h.children > 0 THEN 1 ELSE 0
      [] OTHER ->
            IF 2 * h.expected_vulnerability_score.num >= 5 * h.expected_vulnerability_score.den
            THEN 1 ELSE 0

\* The test of the item loop: qty <= resource_state[item] and remaining_budget >= cost
\* Mutant: the last unit of a type is never given out.
item_fits_strict(qty, available, remaining, cost) == qty < available /\ remaining >= cost

item_fits(qty, available, remaining, cost) == qty <= available /\ remaining >= cost

(***************************************************************************)
(* What generate_households can return: n households with ids 1..n, each   *)
(* with an age list, a reported size within one of its true size and a     *)
(* reported vulnerability level.                                           *)
(***************************************************************************)
GeneratedProfiles ==
    { <<(<<30, 35>>), 2, "low">>,
      <<(<<10, 30, 70>>), 3, "high">>,
      <<(<<30, 30, 30, 30, 30>>), 5, "medium">> }

HouseholdsOf(profiles) ==
    [i \in 1..Len(profiles) |->
        Household(i, profiles[i][1], profiles[i][2], profiles[i][3])]

GeneratedLists ==
    {HouseholdsOf(ps) : ps \in UNION {[1..n -> GeneratedProfiles] : n \in 1..MaxGenerated}}

\* The lists drawn while several worker threads may run.
FewGeneratedLists ==
    { HouseholdsOf(<< <<(<<10, 30, 70>>), 3, "high">> >>),
      HouseholdsOf(<< <<(<<30, 35>>), 2, "low">>, <<(<<10, 30, 70>>), 3, "high">> >>) }

(***************************************************************************)
(* Start-up of the simulator: __init__, with the budget and availability   *)
(* the configuration tab was set to.                                       *)
(***************************************************************************)
NoHousehold == Household(0, <<>>, 2, "low")

NewWorker ==
    [pc |-> "start", puts |-> 0, households |-> <<>>, queue_heap |-> <<>>,
     allocations |-> <<>>, remaining_budget |-> 0, resource_state |-> <<>>,
     current_time |-> 0, h |-> NoHousehold, h_alloc |-> <<>>, total_cost |-> 0,
     item |-> 0, start_budget |-> 0, start_available |-> <<>>]

\* A thread that returned: its locals are gone.
DoneWorker == [NewWorker EXCEPT !.pc = "done", !.puts = 1]

SIM_InitWith(budgets, avails) ==
    /\ app = "simulation"
    /\ \E a \in avails :
          resources = [t \in SIM_TYPES |-> [cost |-> SIM_COST[t], available |-> a]]
    /\ budget \in budgets
    /\ households = <<>>
    /\ allocated_resources = <<>>
    /\ total_cost = 0
    /\ pc = "idle"
    /\ sorted_households = <<>>
    /\ remaining_budget = 0
    /\ h_pos = 0
    /\ r_pos = 0
    /\ saved = NoFiles
    /\ trace = <<>>
    /\ hist = [adds |-> 0, assigned |-> {}, reused |-> FALSE, refused |-> FALSE,
               stopped |-> {}, passes |-> 0, prev |-> NoPass, cur |-> NoPass]
    /\ simulation_running = FALSE
    /\ result_queue = <<>>
    /\ allocations = <<>>
    /\ pending = 0
    /\ workers = <<>>

SIM_Init == SIM_InitWith(BudgetChoices, 1..MaxAvail)

GUI_Init == SIM_InitWith({900}, {1})

(***************************************************************************)
(* The GUI thread of the simulator.                                        *)
(***************************************************************************)
\* run_simulation: returns at once while simulation_running; else starts a
\* worker thread and schedules check_simulation_progress.  The history keeps
\* only the latest finished pass across a new start.
run_simulation ==
    /\ app = "simulation"
    /\ ~simulation_running
    /\ Len(workers) < MaxRuns
    /\ simulation_running' = TRUE
    /\ workers' = Append(workers, NewWorker)
    /\ pending' = pending + 1
    /\ hist' = [hist EXCEPT !.prev = NoPass]
    /\ UNCHANGED <<esVars, app, resources, budget, result_queue, allocations>>

\* simulation_complete
simulation_complete == simulation_running' = FALSE

\* What the configuration tab may hold when Update Configuration is
\* clicked: any integers. The fields of the food pack and of the budget are
\* edited, with a sign either way; the other fields keep what they show.
ConfigBudgets == {-900, 900}

ConfigCosts == {-500, 500}

ConfigAvailable == {-1, 1}

\* update_configuration: the fields are copied into self.budget and
\* self.resources as they are; the button is enabled at all times.
update_configuration ==
    /\ app = "simulation"
    /\ \E b \in ConfigBudgets, c \in ConfigCosts, a \in ConfigAvailable :
          /\ budget' = b
          /\ resources' = [resources EXCEPT !["Food Pack"] = [cost |-> c, available |-> a]]
    /\ UNCHANGED <<esVars, app, hist, simVars>>

\* check_simulation_progress, run from the event loop when its timer fires.
check_simulation_progress ==
    /\ app = "simulation"
    /\ pending > 0
    /\ IF result_queue # <<>>
       THEN LET result == Head(result_queue)
            IN  /\ result_queue' = Tail(result_queue)
                /\ IF result.kind = "success"
                   THEN allocations' = result.allocations
                   ELSE UNCHANGED allocations
                /\ simulation_complete
                /\ pending' = pending - 1
       ELSE /\ UNCHANGED <<result_queue, allocations, simulation_running>>
            /\ pending' = IF simulation_running THEN pending ELSE pending - 1
    /\ UNCHANGED <<esVars, app, resources, budget, hist, workers>>

\* stop_simulation: the Stop button is enabled from run_simulation to
\* simulation_complete.
stop_simulation ==
    /\ app = "simulation"
    /\ simulation_running
    /\ simulation_complete
    /\ hist' = [hist EXCEPT !.stopped =
                    @ \cup {w \in 1..Len(workers) : workers[w].pc # "done"}]
    /\ UNCHANGED <<esVars, app, resources, budget, result_queue, allocations,
                   pending, workers>>

(***************************************************************************)
(* The worker thread: simulation_worker, generate_households and           *)
(* simulate_allocation, one step per block.                                *)
(***************************************************************************)
WorkerStep(w, new) ==
    /\ workers' = [workers EXCEPT ![w] = new]
    /\ UNCHANGED <<esVars, app, resources, budget, hist, simulation_running,
                   result_queue, allocations, pending>>

\* The first lines of simulation_worker: self.num_households.get() raises
\* when the spin box does not hold an integer.
simulation_worker_start(w) ==
    /\ workers[w].pc = "start"
    /\ \E raised \in BOOLEAN :
          WorkerStep(w, [workers[w] EXCEPT !.pc = IF raised THEN "except" ELSE "generate"])

generate_households(w, lists) ==
    /\ workers[w].pc = "generate"
    /\ \E hs \in lists :
          WorkerStep(w, [workers[w] EXCEPT !.households = hs, !.pc = "allocate"])

\* simulate_allocation up to its loop: the heap, the copy of the budget and
\* of the availability.
simulate_allocation_begin(w) ==
    /\ workers[w].pc = "allocate"
    /\ LET available == [t \in SIM_TYPES |-> resources[t].available]
       IN  WorkerStep(w, [workers[w] EXCEPT
              !.queue_heap = PushAll(<<>>, workers[w].households),
              !.allocations = <<>>,
              !.remaining_budget = budget,
              !.resource_state = available,
              !.current_time = 0,
              !.start_budget = budget,
              !.start_available = available,
              !.pc = "loop"])

\* The loop test and the head of the loop body; when the test fails,
\* simulate_allocation returns.
simulate_allocation_pop(w) ==
    /\ workers[w].pc = "loop"
    /\ IF workers[w].queue_heap # <<>> /\ workers[w].remaining_budget > 0
       THEN LET popped == heappop(workers[w].queue_heap)
            IN  WorkerStep(w, [workers[w] EXCEPT
                   !.h = popped[1], !.queue_heap = popped[2],
                   !.h_alloc = <<>>, !.total_cost = 0, !.item = 1, !.pc = "item"])
       ELSE WorkerStep(w, [workers[w] EXCEPT !.pc = "put"])

\* The branch taken when the item fits: the locals after it.
\* Mutant: the household's total cost is not increased.
commit_item_forgets_cost(me, item, qty, cost) ==
    [me EXCEPT !.h_alloc = (item :> qty) @@ @,
               !.resource_state[item] = @ - qty,
               !.remaining_budget = @ - cost]

\* Mutant: one unit less than the need is handed out and paid.
commit_item_one_short(me, item, qty, cost) ==
    [me EXCEPT !.h_alloc = (item :> (qty - 1)) @@ @,
               !.resource_state[item] = @ - (qty - 1),
               !.remaining_budget = @ - (qty - 1) * (cost \div qty),
               !.total_cost = @ + (qty - 1) * (cost \div qty)]

commit_item(me, item, qty, cost) ==
    [me EXCEPT !.h_alloc = (item :> qty) @@ @,
               !.resource_state[item] = @ - qty,
               !.remaining_budget = @ - cost,
               !.total_cost = @ + cost]

\* One turn of the loop over needs.items().
simulate_allocation_item(w) ==
    /\ workers[w].pc = "item"
    /\ LET me == workers[w]
           item == SIM_SCAN[me.item]
           qty == SIM_Need(me.h, item)
           cost == qty * resources[item].cost
           next == IF me.item < Len(SIM_SCAN)
                   THEN [me EXCEPT !.item = @ + 1]
                   ELSE [me EXCEPT !.item = 0, !.pc = "record"]
       IN  IF item_fits(qty, me.resource_state[item], me.remaining_budget, cost)
           THEN WorkerStep(w, commit_item(next, item, qty, cost))
           ELSE WorkerStep(w, [next EXCEPT !.h_alloc = (item :> 0) @@ @])

\* Mutant: the time step is counted before the record is written.
allocation_record_after_step(h, h_alloc, cost, waiting_time) ==
    [household_id |-> h.id, priority |-> h.priority, h_alloc |-> h_alloc,
     total_cost |-> cost, waiting_time |-> waiting_time + 1]

\* The record appended for the household; the priority is kept exact here.
allocation_record(h, h_alloc, cost, waiting_time) ==
    [household_id |-> h.id, priority |-> h.priority, h_alloc |-> h_alloc,
     total_cost |-> cost, waiting_time |-> waiting_time]

simulate_allocation_record(w) ==
    /\ workers[w].pc = "record"
    /\ LET me == workers[w]
       IN  WorkerStep(w, [me EXCEPT
              !.allocations = Append(@, allocation_record(me.h, me.h_alloc, me.total_cost,
                                                          me.current_time)),
              !.current_time = @ + 1,
              !.h = NoHousehold, !.h_alloc = <<>>, !.total_cost = 0,
              !.pc = "loop"])

\* Mutant: after the put the worker falls into its except branch.
simulation_worker_put_then_except(w) ==
    /\ workers[w].pc = "put"
    /\ result_queue' = Append(result_queue,
          [kind |-> "success", allocations |-> workers[w].allocations,
           remaining |-> workers[w].remaining_budget, from |-> w])
    /\ workers' = [workers EXCEPT ![w] = [@ EXCEPT !.pc = "except", !.puts = @ + 1]]
    /\ UNCHANGED <<esVars, app, resources, budget, hist, simulation_running, allocations,
                   pending>>

\* result_queue.put(('success', allocations, remaining)), then the thread ends.
simulation_worker_put(w) ==
    /\ workers[w].pc = "put"
    /\ LET me == workers[w]
       IN  /\ result_queue' = Append(result_queue,
                 [kind |-> "success", allocations |-> me.allocations,
                  remaining |-> me.remaining_budget, from |-> w])
           /\ hist' = [hist EXCEPT !.passes = @ + 1, !.prev = hist.cur,
                          !.cur = EndOfPass(StartOfPass(me.households, me.start_budget,
                                                        me.start_available),
                                            me.allocations, me.remaining_budget)]
    /\ workers' = [workers EXCEPT ![w] = [DoneWorker EXCEPT !.puts = workers[w].puts + 1]]
    /\ UNCHANGED <<esVars, app, resources, budget, simulation_running, allocations, pending>>

\* The except branch: result_queue.put(('error', str(e))), then the thread ends.
simulation_worker_except(w) ==
    /\ workers[w].pc = "except"
    /\ result_queue' = Append(result_queue,
          [kind |-> "error", allocations |-> <<>>, remaining |-> 0, from |-> w])
    /\ workers' = [workers EXCEPT ![w] = [DoneWorker EXCEPT !.puts = workers[w].puts + 1]]
    /\ UNCHANGED <<esVars, app, resources, budget, hist, simulation_running, allocations,
                   pending>>

WorkerNext(lists) ==
    \E w \in 1..Len(workers) :
        \/ simulation_worker_start(w)
        \/ generate_households(w, lists)
        \/ simulate_allocation_begin(w)
        \/ simulate_allocation_pop(w)
        \/ simulate_allocation_item(w)
        \/ simulate_allocation_record(w)
        \/ simulation_worker_put(w)
        \/ simulation_worker_except(w)

(***************************************************************************)
(* Spec: either application, the simulator run without Stop (one pass at a *)
(* time). SpecGUI: the simulator with Stop, on few generated households.   *)
(***************************************************************************)
Init == ES_Init \/ SIM_Init

Next ==
    \/ ES_Next
    \/ run_simulation
    \/ check_simulation_progress
    \/ WorkerNext(GeneratedLists)

Spec == Init /\ [][Next]_vars

GUI_Next ==
    \/ run_simulation
    \/ stop_simulation
    \/ check_simulation_progress
    \/ WorkerNext(FewGeneratedLists)

SpecGUI == GUI_Init /\ [][GUI_Next]_vars

\* allocate_resources runs within one call of its button handler: once the
\* pass has begun, the loop's next step is taken.
ES_PassStep == household_begin \/ evaluate_resource \/ allocate_resources_end

SpecLive == ES_Init /\ [][ES_Next]_vars /\ WF_vars(ES_PassStep)

\* SpecIds: the record keeper with one more household entered in a session,
\* enough for an id to be given to a second household while the first one
\* holding it is still stored.
Ids_Next ==
    \/ add_household_within(MaxAdds + 1)
    \/ remove_household
    \/ allocate_resources_begin
    \/ household_begin
    \/ evaluate_resource
    \/ allocate_resources_end

SpecIds == ES_Init /\ [][Ids_Next]_vars

\* SpecHeap: the simulator on lists of one more generated household, with
\* an ample budget, so that the heap holds three households or more.
ManyGeneratedLists ==
    {HouseholdsOf(ps) : ps \in [1..(MaxGenerated + 1) -> GeneratedProfiles]}

Heap_Next ==
    \/ run_simulation
    \/ check_simulation_progress
    \/ WorkerNext(ManyGeneratedLists)

SpecHeap == SIM_InitWith({10000}, {MaxAvail}) /\ [][Heap_Next]_vars

\* SpecConfig: the simulator with its configuration tab.
Config_Next ==
    \/ update_configuration
    \/ run_simulation
    \/ check_simulation_progress
    \/ WorkerNext(FewGeneratedLists)

SpecConfig == GUI_Init /\ [][Config_Next]_vars

\* SpecNeeds: the record keeper started on a data/ directory whose
\* households.csv holds one household, of any size up to MaxMembers and with
\* ages on both sides of every age threshold of the code; the allocation
\* pass is then run on it.
BandAges == {4, 5, 17, 18, 60, 61}

AgeLists ==
    UNION {{a \in [1..n -> BandAges] : \A i \in 1..(n - 1) : a[i] <= a[i + 1]} :
           n \in 1..MaxMembers}

Needs_Init ==
    /\ app = "expertsystem"
    /\ resources = [t \in ES_TYPES |-> [cost |-> ES_COST[t], available |-> MaxAvail]]
    /\ budget \in BudgetChoices
    /\ \E ages \in AgeLists :
          households = <<[id |-> 1, members |-> Len(ages), ages |-> ages,
                          priority_score |-> calculate_priority(Len(ages), ages)]>>
    /\ allocated_resources = <<>>
    /\ total_cost = 0
    /\ pc = "idle"
    /\ sorted_households = <<>>
    /\ remaining_budget = 0
    /\ h_pos = 0
    /\ r_pos = 0
    /\ saved = FilesOf(households, resources, allocated_resources, budget)
    /\ trace = <<>>
    /\ hist = [adds |-> 0, assigned |-> {1}, reused |-> FALSE, refused |-> FALSE,
               stopped |-> {}, passes |-> 0, prev |-> NoPass, cur |-> NoPass]
    /\ simulation_running = FALSE
    /\ result_queue = <<>>
    /\ allocations = <<>>
    /\ pending = 0
    /\ workers = <<>>

Needs_Next ==
    \/ allocate_resources_begin
    \/ household_begin
    \/ evaluate_resource
    \/ allocate_resources_end

SpecNeeds == Needs_Init /\ [][Needs_Next]_vars

\* SpecPriority: the record keeper when the form is filled with a household
\* of any size up to MaxMembers and with ages on both sides of every age
\* threshold of calculate_priority; the household may be removed again.
BandForms == {<<Len(ages), ages>> : ages \in AgeLists}

Priority_Next ==
    \/ add_household_from(BandForms, 1)
    \/ remove_household

SpecPriority == ES_Init /\ [][Priority_Next]_vars

\* SpecSizes: the simulator on one generated household of every size that
\* generate_households can report, max(2, min(7, true_size + noise)): the
\* household has as many adults as it reports members.
ReportedSizes == DOMAIN size_priors

SizedLists ==
    {HouseholdsOf(<< <<[i \in 1..r |-> 30], r, v>> >>) :
        r \in ReportedSizes, v \in DOMAIN vulnerability_priors}

Sizes_Next ==
    \/ run_simulation
    \/ check_simulation_progress
    \/ WorkerNext(SizedLists)

SpecSizes == SIM_InitWith({10000}, {MaxAvail}) /\ [][Sizes_Next]_vars

(***************************************************************************)
(* Properties.                                                             *)
(***************************************************************************)
InPass == pc \in {"household", "scan"}

WorkerInPass(w) == workers[w].pc \in {"loop", "item", "record"}

\* The evaluation the record keeper is about to make.
ES_Current ==
    LET h == sorted_households[h_pos]
        t == ES_SCAN[r_pos]
    IN  [type |-> t, quantity |-> ES_Need(h, t),
         cost |-> ES_Need(h, t) * resources[t].cost]

\* The evaluation worker w is about to make.
SIM_Current(w) ==
    LET item == SIM_SCAN[workers[w].item]
    IN  [type |-> item, quantity |-> SIM_Need(workers[w].h, item),
         cost |-> SIM_Need(workers[w].h, item) * resources[item].cost]

RECURSIVE SumCommitted(_)
SumCommitted(tr) ==
    IF tr = <<>> THEN 0
    ELSE (IF Head(tr).committed THEN Head(tr).quantity * ES_COST[Head(tr).type] ELSE 0)
         + SumCommitted(Tail(tr))

RecordCost(r) ==
    SumFn([item \in DOMAIN r.h_alloc |-> r.h_alloc[item] * SIM_COST[item]], DOMAIN r.h_alloc)

LedgerCost(ledger) ==
    SumFn([i \in DOMAIN ledger |-> ledger[i].total_cost], DOMAIN ledger)

\* C1: an evaluation changes inventory or remaining budget iff the quantity
\* is positive, at most the availability of the type, and its cost at most
\* the remaining budget; the change is then exactly the quantity and the
\* cost, for the record keeper and for the simulator.
C1_CommitIffFits ==
    [][ /\ (app = "expertsystem" /\ pc = "scan") =>
             LET e == ES_Current
                 fits == /\ e.quantity > 0
                         /\ e.quantity <= resources[e.type].available
                         /\ e.cost <= remaining_budget
                 changed == resources' # resources \/ remaining_budget' # remaining_budget
             IN  /\ changed <=> fits
                 /\ changed =>
                       /\ resources' = [resources EXCEPT ![e.type].available = @ - e.quantity]
                       /\ remaining_budget' = remaining_budget - e.cost
        /\ \A w \in 1..Len(workers) :
             (workers[w].pc = "item" /\ workers'[w] # workers[w]) =>
                LET e == SIM_Current(w)
                    me == workers[w]
                    fits == /\ e.quantity > 0
                            /\ e.quantity <= me.resource_state[e.type]
                            /\ e.cost <= me.remaining_budget
                    changed == \/ workers'[w].resource_state # me.resource_state
                               \/ workers'[w].remaining_budget # me.remaining_budget
                IN  /\ changed <=> fits
                    /\ changed =>
                          /\ workers'[w].resource_state =
                                [me.resource_state EXCEPT ![e.type] = @ - e.quantity]
                          /\ workers'[w].remaining_budget = me.remaining_budget - e.cost
      ]_vars

\* A pass of the record keeper has committed one request and refused a
\* positive one.
C1_Witness ==
    \E i, j \in DOMAIN trace :
        /\ trace[i].committed
        /\ ~trace[j].committed
        /\ trace[j].quantity > 0

C3_InventoryNonNegativeNonIncreasing ==
    /\ [](/\ \A t \in DOMAIN resources : resources[t].available >= 0
          /\ \A w \in 1..Len(workers) :
                \A t \in DOMAIN workers[w].resource_state :
                    workers[w].resource_state[t] >= 0)
    /\ [][ /\ \A t \in DOMAIN resources : resources'[t].available <= resources[t].available
           /\ \A w \in 1..Len(workers) :
                (WorkerInPass(w) /\ workers'[w].pc \in {"loop", "item", "record", "put"})
                   => \A t \in SIM_TYPES :
                         workers'[w].resource_state[t] <= workers[w].resource_state[t]
         ]_vars

\* The record keeper has run a type out of stock and the request it is
\* evaluating for that type is affordable.
C3_Witness ==
    /\ app = "expertsystem"
    /\ pc = "scan"
    /\ ES_Current.quantity > resources[ES_Current.type].available
    /\ ES_Current.cost <= remaining_budget
    /\ resources[ES_Current.type].available < hist.cur.start_available[ES_Current.type]

\* C4: at the end of a pass, in the simulator each record's total cost is
\* the sum of its committed quantities times the unit costs and the sum of
\* the records' totals is the initial budget minus the remaining budget
\* returned; in the record keeper (whose ledger records no cost per
\* household) total_cost is the sum of the committed costs and equals the
\* initial budget minus the remaining budget returned.
C4_CostsAddUp ==
    /\ (app = "expertsystem" /\ pc = "idle" /\ hist.cur.valid /\ hist.cur.done) =>
          /\ total_cost = SumCommitted(trace)
          /\ total_cost = hist.cur.start_budget - hist.cur.remaining
    /\ (app = "simulation" /\ hist.cur.valid) =>
          /\ \A i \in DOMAIN hist.cur.ledger :
                hist.cur.ledger[i].total_cost = RecordCost(hist.cur.ledger[i])
          /\ LedgerCost(hist.cur.ledger) = hist.cur.start_budget - hist.cur.remaining

\* A simulation pass has ended with a household that was given one type and
\* refused another.
C4_Witness ==
    /\ app = "simulation"
    /\ hist.cur.valid
    /\ \E i \in DOMAIN hist.cur.ledger :
          /\ hist.cur.ledger[i].total_cost > 0
          /\ \E item \in SIM_TYPES :
                /\ hist.cur.ledger[i].h_alloc[item] = 0
                /\ SIM_Need(hist.cur.input[hist.cur.ledger[i].household_id], item) > 0

C6_PassStartsFromPrePassValues ==
    (hist.prev.valid /\ hist.cur.valid) =>
        /\ hist.cur.start_budget = hist.prev.start_budget
        /\ hist.cur.start_available = hist.prev.start_available

\* C7: two passes run in a row on the same household list, catalogue and
\* budget yield the same ledger and the same remaining budget.
C7_SameInputsSameLedger ==
    ( /\ hist.prev.valid /\ hist.prev.done
      /\ hist.cur.valid /\ hist.cur.done
      /\ hist.prev.input = hist.cur.input
      /\ hist.prev.start_budget = hist.cur.start_budget ) =>
        /\ hist.cur.ledger = hist.prev.ledger
        /\ hist.cur.remaining = hist.prev.remaining

\* C8: no two stored households share an id, and no household is given an
\* id that was given out before.
C8_IdsUniqueNeverReused ==
    /\ \A i, j \in 1..Len(households) : i # j => households[i].id # households[j].id
    /\ ~hist.reused

\* C9: at most one simulation_worker thread is between its start and its
\* result_queue.put.
C9_AtMostOnePassActive ==
    Cardinality({w \in 1..Len(workers) : workers[w].pc # "done"}) <= 1

Evaluations(h_id, t) ==
    Cardinality({i \in DOMAIN trace : trace[i].id = h_id /\ trace[i].type = t})

\* C11: a pass of the record keeper, once begun, returns; on return every
\* household of the list has been evaluated exactly once for every resource
\* type and has an entry (possibly empty) in allocated_resources.
C11_EveryHouseholdSettled ==
    /\ [](( /\ app = "expertsystem" /\ pc = "idle"
            /\ hist.cur.valid /\ hist.cur.done ) =>
              \A k \in 1..Len(households) :
                  /\ households[k].id \in DOMAIN allocated_resources
                  /\ \A t \in ES_TYPES :
                        Evaluations(households[k].id, t) =
                           Cardinality({m \in 1..Len(households) :
                                           households[m].id = households[k].id}))
    /\ (InPass ~> (pc = "idle" /\ hist.cur.done))

\* A pass over two households has returned and one of them was given
\* nothing: its entry is empty.
C11_Witness ==
    /\ app = "expertsystem"
    /\ pc = "idle"
    /\ hist.cur.valid /\ hist.cur.done
    /\ Len(households) = 2
    /\ \E k \in 1..2 : allocated_resources[households[k].id] = EmptyAlloc

\* C12: the ledger returned by simulate_allocation has one record per input
\* household, also when the budget reached zero before the heap was empty.
C12_OneRecordPerHousehold ==
    (app = "simulation" /\ hist.cur.valid) =>
        /\ Len(hist.cur.ledger) = Len(hist.cur.input)
        /\ \A k \in 1..Len(hist.cur.input) :
              \E i \in DOMAIN hist.cur.ledger :
                  hist.cur.ledger[i].household_id = hist.cur.input[k].id

\* C13: a resource type that is not committed leaves budget and inventory
\* as they were and the scan goes on with the next type of the same
\* household; the ledger entries of the households settled earlier in the
\* pass are not modified for the rest of the pass.
C13_ShortfallBlocksNothing ==
    [][ /\ (app = "expertsystem" /\ pc = "scan") =>
             /\ r_pos < Len(ES_SCAN) => (pc' = "scan" /\ r_pos' = r_pos + 1 /\ h_pos' = h_pos)
             /\ (Len(trace') = Len(trace) + 1 /\ ~trace'[Len(trace')].committed) =>
                   (resources' = resources /\ remaining_budget' = remaining_budget)
        /\ (app = "expertsystem" /\ InPass) =>
             \A k \in 1..(h_pos - 1) :
                 allocated_resources'[sorted_households[k].id]
                    = allocated_resources[sorted_households[k].id]
        /\ \A w \in 1..Len(workers) :
             /\ (workers[w].pc = "item" /\ workers'[w] # workers[w]) =>
                   /\ workers[w].item < Len(SIM_SCAN) =>
                         (workers'[w].pc = "item" /\ workers'[w].item = workers[w].item + 1)
                   /\ workers'[w].h_alloc[SIM_SCAN[workers[w].item]] = 0 =>
                         /\ workers'[w].resource_state = workers[w].resource_state
                         /\ workers'[w].remaining_budget = workers[w].remaining_budget
             /\ (WorkerInPass(w) /\ workers'[w].pc \in {"loop", "item", "record"}) =>
                   /\ Len(workers'[w].allocations) >= Len(workers[w].allocations)
                   /\ SubSeq(workers'[w].allocations, 1, Len(workers[w].allocations))
                         = workers[w].allocations
      ]_vars

\* Full need or nothing, for an entry of the record keeper's ledger.
FullOrAbsent(h, entry, t) == t \notin DOMAIN entry \/ entry[t] = ES_Need(h, t)

\* Full need or zero, for a record of the simulator's ledger.
FullOrZero(h, h_alloc, item) == h_alloc[item] = 0 \/ h_alloc[item] = SIM_Need(h, item)

\* C14: the quantity recorded for a household and a resource type is the
\* full computed need or zero/absent: in the record keeper for the household
\* under evaluation and the one just settled, in the simulator for the
\* household being served and every record of the ledger.
C14_NoPartialCommit ==
    /\ (app = "expertsystem" /\ pc = "scan") =>
          LET h == sorted_households[h_pos]
              entry == allocated_resources[h.id]
          IN  \A j \in 1..Len(ES_SCAN) :
                  IF j < r_pos THEN FullOrAbsent(h, entry, ES_SCAN[j])
                  ELSE ES_SCAN[j] \notin DOMAIN entry
    /\ (app = "expertsystem" /\ pc = "household" /\ h_pos > 1) =>
          LET h == sorted_households[h_pos - 1]
          IN  \A t \in ES_TYPES : FullOrAbsent(h, allocated_resources[h.id], t)
    /\ \A w \in 1..Len(workers) :
          LET me == workers[w]
          IN  /\ me.pc \in {"item", "record"} =>
                    \A item \in DOMAIN me.h_alloc : FullOrZero(me.h, me.h_alloc, item)
              /\ WorkerInPass(w) =>
                    \A i \in DOMAIN me.allocations :
                        \A item \in SIM_TYPES :
                            FullOrZero(me.households[me.allocations[i].household_id],
                                       me.allocations[i].h_alloc, item)
    /\ (app = "simulation" /\ hist.cur.valid) =>
          \A i \in DOMAIN hist.cur.ledger : \A item \in SIM_TYPES :
              FullOrZero(hist.cur.input[hist.cur.ledger[i].household_id],
                         hist.cur.ledger[i].h_alloc, item)

\* The record keeper has just refused the food packs of a household that
\* needs two, with one in stock and the budget to pay for it.
C14_Witness ==
    /\ app = "expertsystem"
    /\ pc = "scan"
    /\ r_pos = 2
    /\ ES_Need(sorted_households[h_pos], "Food Pack") = 2
    /\ resources["Food Pack"].available = 1
    /\ remaining_budget >= resources["Food Pack"].cost
    /\ "Food Pack" \notin DOMAIN allocated_resources[sorted_households[h_pos].id]

\* The households of a list that have a given priority score, in list order.
WithPriority(hs, p) == SelectSeq(hs, LAMBDA h : h.priority_score = p)

SamePriority(p, q) == ~PriorityLess(p, q) /\ ~PriorityLess(q, p)

\* C16: of two households of equal priority the one pushed earlier (the
\* lower id) is popped and recorded first.
C16_EarlierPushedPoppedFirst ==
    \A w \in 1..Len(workers) :
        LET ledger == workers[w].allocations
        IN  \A i, j \in DOMAIN ledger :
                (i < j /\ SamePriority(ledger[i].priority, ledger[j].priority)) =>
                    ledger[i].household_id < ledger[j].household_id

\* C17: every stored (and every saved) household has as many ages as
\* members, and a refused form leaves the household list, the ledger and
\* the saved files as they were.
C17_MismatchRejected ==
    /\ [](/\ \A k \in 1..Len(households) :
                Len(households[k].ages) = households[k].members
          /\ \A k \in 1..Len(saved.households) :
                Len(saved.households[k].ages) = saved.households[k].members)
    /\ [][ (hist'.refused /\ ~hist.refused) =>
             /\ households' = households
             /\ allocated_resources' = allocated_resources
             /\ saved' = saved
         ]_vars

\* A form was refused while a household and its allocation are stored and
\* saved.
C17_Witness ==
    /\ hist.refused
    /\ Len(households) = 1
    /\ allocated_resources[households[1].id] # EmptyAlloc
    /\ saved.allocations # {}

\* C18: no pass runs on a negative budget, a negative unit cost or a
\* negative availability: while a worker is inside simulate_allocation the
\* budget and the availability it started from and the unit costs it reads
\* are not negative.
C18_NoPassOnNegativeConfiguration ==
    \A w \in 1..Len(workers) :
        WorkerInPass(w) =>
            /\ workers[w].start_budget >= 0
            /\ \A t \in SIM_TYPES :
                  /\ workers[w].start_available[t] >= 0
                  /\ resources[t].cost >= 0

\* The household a trace entry is about: the pass visits the stored
\* households in sorted order, and the list is not edited while the entries
\* of the pass are kept.
HouseholdOf(e) == SortedByPriority(households)[e.pos]

\* The least q with q * b >= a.
CeilDiv(a, b) == CHOOSE q \in 0..a : q * b >= a /\ (q - 1) * b < a

\* C19: for every household of one member or more that a pass evaluates, the
\* Food Pack need is the ceiling of members / 3 and the Hygiene Kit need is
\* the ceiling of members / 4.
C19_FoodAndHygieneAreCeilings ==
    \A i \in 1..Len(trace) :
        LET e == trace[i]
            members == HouseholdOf(e).members
        IN  members >= 1 =>
               /\ e.type = "Food Pack" => e.quantity = CeilDiv(members, 3)
               /\ e.type = "Hygiene Kit" => e.quantity = CeilDiv(members, 4)

\* A household of six members was evaluated for two food packs and two
\* hygiene kits.
C19_Witness ==
    /\ \E i \in 1..Len(trace) :
          /\ HouseholdOf(trace[i]).members = 6
          /\ trace[i].type = "Food Pack"
          /\ trace[i].quantity = 2
    /\ \E i \in 1..Len(trace) :
          /\ HouseholdOf(trace[i]).members = 6
          /\ trace[i].type = "Hygiene Kit"
          /\ trace[i].quantity = 2

\* v of a household: the ages below 5 and the ages above 60.
VulnerableAges(h) ==
    Cardinality({k \in 1..Len(h.ages) : h.ages[k] < 5 \/ h.ages[k] > 60})

\* C20: the Medical Kit need of an evaluated household is 0 when v = 0, 1 when
\* v is 1 or 2 and 2 when v >= 3; its School Supplies need is the number of
\* its ages in 5..17.
C20_MedicalAndSchoolNeeds ==
    \A i \in 1..Len(trace) :
        LET e == trace[i]
            h == HouseholdOf(e)
            v == VulnerableAges(h)
        IN  /\ e.type = "Medical Kit" =>
                  /\ v = 0 => e.quantity = 0
                  /\ (1 <= v /\ v <= 2) => e.quantity = 1
                  /\ v >= 3 => e.quantity = 2
            /\ e.type = "School Supplies" =>
                  e.quantity = Cardinality({k \in 1..Len(h.ages) : h.ages[k] \in 5..17})

\* A household with three vulnerable members or more, among them one aged 4
\* and one aged 61, and with members aged 5 and 17, was evaluated for two
\* medical kits and for its school supplies.
C20_Witness ==
    /\ \E i \in 1..Len(trace) :
          LET h == HouseholdOf(trace[i])
          IN  /\ trace[i].type = "Medical Kit"
              /\ trace[i].quantity = 2
              /\ VulnerableAges(h) >= 3
              /\ \E k \in 1..Len(h.ages) : h.ages[k] = 4
              /\ \E k \in 1..Len(h.ages) : h.ages[k] = 61
    /\ \E i \in 1..Len(trace) :
          LET h == HouseholdOf(trace[i])
          IN  /\ trace[i].type = "School Supplies"
              /\ trace[i].quantity = 2
              /\ \E k \in 1..Len(h.ages) : h.ages[k] = 5
              /\ \E k \in 1..Len(h.ages) : h.ages[k] = 17

\* Two households report the same data to the record keeper.
SameReport(g, h) == g.members = h.members /\ g.ages = h.ages

\* Two generated households have the same profile.
SameProfile(g, h) ==
    /\ g.ages = h.ages
    /\ g.reported_size = h.reported_size
    /\ g.reported_vulnerability = h.reported_vulnerability

\* The finished passes the history holds.
FinishedPasses == {p \in {hist.prev, hist.cur} : p.valid /\ p.done}

\* The household of the pass's input that a simulator record is about:
\* generate_households numbers the households it returns from 1.
RecordHousehold(p, r) == p.input[r.household_id]

\* C21: the quantity a household is evaluated for depends on its own data
\* only. Record keeper: the evaluations a pass has made so far for
\* households with the same report and for the same type have the same
\* quantity, whatever was left when each was made, and what the previous
\* pass committed to a household is what this pass evaluates it for. Simulator: in the ledgers
\* of one pass or of two passes, the quantities committed for the same type
\* to households of the same profile are the same.
C21_NeedsIndependentOfScarcity ==
   [](/\ app = "expertsystem" =>
            /\ InPass =>
                  \A i, j \in 1..Len(trace) :
                      (i < j /\ trace[i].type = trace[j].type
                       /\ SameReport(sorted_households[trace[i].pos],
                                     sorted_households[trace[j].pos]))
                         => trace[i].quantity = trace[j].quantity
            /\ (hist.prev.valid /\ hist.prev.done) =>
                  \A i \in 1..Len(trace) :
                      LET e == trace[i]
                      IN  (/\ Cardinality({k \in 1..Len(households) :
                                              households[k].id = e.id}) = 1
                           /\ e.id \in DOMAIN hist.prev.ledger
                           /\ e.type \in DOMAIN hist.prev.ledger[e.id])
                             => hist.prev.ledger[e.id][e.type] = e.quantity
      /\ app = "simulation" =>
            \A p, q \in FinishedPasses :
                \A i \in 1..Len(p.ledger), j \in 1..Len(q.ledger) :
                    LET ri == p.ledger[i]
                        rj == q.ledger[j]
                    IN  SameProfile(RecordHousehold(p, ri), RecordHousehold(q, rj)) =>
                           \A item \in SIM_TYPES :
                               (ri.h_alloc[item] > 0 /\ rj.h_alloc[item] > 0)
                                  => ri.h_alloc[item] = rj.h_alloc[item])

\* Two households with the same report were evaluated for the same type in
\* one pass, and only the first of them could be served.
C21_Witness ==
    /\ app = "expertsystem"
    /\ \E i, j \in 1..Len(trace) :
          /\ i < j
          /\ trace[i].type = trace[j].type
          /\ trace[i].pos # trace[j].pos
          /\ SameReport(HouseholdOf(trace[i]), HouseholdOf(trace[j]))
          /\ trace[i].committed
          /\ ~trace[j].committed
          /\ trace[j].quantity > 0

\* How many ages of a list lie in a set.
AgesIn(ages, S) == Cardinality({k \in 1..Len(ages) : ages[k] \in S})

\* C22: the priority stored with a household is 10 per member, 30 per age
\* below 5, 20 per age in 5..17 and 25 per age above 60, which is not
\* negative; computing it when the household is entered leaves the members
\* and ages as the form gave them and changes no stored household, no
\* resource, nor the budget or the total cost.
C22_PriorityFormula ==
    /\ [](\A i \in 1..Len(households) :
             LET h == households[i]
             IN  /\ h.priority_score =
                       10 * h.members + 30 * AgesIn(h.ages, 0..4)
                          + 20 * AgesIn(h.ages, 5..17) + 25 * AgesIn(h.ages, 61..150)
                 /\ h.priority_score >= 0)
    /\ [][Len(households') = Len(households) + 1 =>
             /\ SubSeq(households', 1, Len(households)) = households
             /\ LET h == households'[Len(households')]
                IN  /\ h.members >= 0
                    /\ Len(h.ages) = h.members
                    /\ <<h.members, h.ages>> \in (BandForms \cup FormInputs)
             /\ UNCHANGED <<resources, budget, total_cost>>]_vars

\* A household with a member of each age band, 60 among them, is stored
\* with its priority.
C22_Witness ==
    \E i \in 1..Len(households) :
        LET h == households[i]
        IN  /\ AgesIn(h.ages, 0..4) > 0
            /\ AgesIn(h.ages, 5..17) > 0
            /\ AgesIn(h.ages, {60}) > 0
            /\ AgesIn(h.ages, 61..150) > 0
            /\ h.priority_score = 10 * h.members + 75

\* A step of ExpertSystem.allocate_resources: from its first line to its
\* return.
PassStep == app = "expertsystem" /\ (pc # "idle" \/ pc' # "idle")

\* C23: no step of a pass of the record keeper changes the stored
\* households (their members, ages, priority and order), the budget or a
\* unit cost, in memory or in the files; a pass changes availabilities, the
\* ledger and the total cost only.
C23_PassLeavesHouseholdsAndConfiguration ==
    [][PassStep =>
         /\ households' = households
         /\ budget' = budget
         /\ DOMAIN resources' = DOMAIN resources
         /\ \A t \in DOMAIN resources : resources'[t].cost = resources[t].cost
         /\ saved'.households = saved.households
         /\ saved'.budget = saved.budget
         /\ \A t \in DOMAIN saved.resources :
               saved'.resources[t].cost = saved.resources[t].cost]_vars

\* A pass over two households of different priority, entered lowest first,
\* has returned after committing resources.
C23_Witness ==
    /\ app = "expertsystem"
    /\ pc = "idle"
    /\ hist.cur.valid /\ hist.cur.done
    /\ total_cost > 0
    /\ Len(households) = 2
    /\ households[1].priority_score < households[2].priority_score
    /\ \E t \in ES_TYPES : resources[t].available < hist.cur.start_available[t]

\* The households a worker thread holds: generated, and being processed.
HeldBy(w) ==
    {workers[w].households[k] : k \in 1..Len(workers[w].households)}
       \cup (IF workers[w].pc \in {"item", "record"} THEN {workers[w].h} ELSE {})

\* C24: the expected size of every generated household, whose reported size
\* is one of 2..7, is a quotient of a non-negative sum by a positive total
\* and lies between 2 and 7.
C24_ExpectedSizeWithinCandidates ==
    \A w \in 1..Len(workers) :
        \A h \in HeldBy(w) :
            LET e == h.expected_members
            IN  /\ h.reported_size \in 2..7
                /\ e.den > 0
                /\ e.num >= 0
                /\ 2 * e.den <= e.num
                /\ e.num <= 7 * e.den

\* Households reporting the smallest and the largest size have been
\* generated in the runs of a session, and the latter is being processed.
C24_Witness ==
    /\ \E k \in 1..Len(hist.cur.input) : hist.cur.input[k].reported_size = 2
    /\ \E w \in 1..Len(workers) :
          /\ workers[w].pc = "record"
          /\ workers[w].h.reported_size = 7

\* The key the allocation display sorts by: max(h["ages"]) if h["ages"] else 0.
MaxAge(h) ==
    IF h.ages = <<>> THEN 0
    ELSE CHOOSE a \in {h.ages[k] : k \in 1..Len(h.ages)} :
            \A k \in 1..Len(h.ages) : h.ages[k] <= a

\* C25: the households of a pass of the record keeper are processed by
\* descending maximum age: a household is never processed before one whose
\* oldest member is older.
C25_ProcessedByDescendingMaxAge ==
    (app = "expertsystem" /\ InPass) =>
        \A i, j \in 1..Len(sorted_households) :
            i < j => MaxAge(sorted_households[i]) >= MaxAge(sorted_households[j])

\* C26: a worker thread that was running when stop_simulation executed
\* commits nothing further and puts no result on the queue.
C26_StoppedWorkerDoesNothing ==
    [][\A w \in hist.stopped :
          /\ workers[w].pc = "item" =>
                /\ workers'[w].resource_state = workers[w].resource_state
                /\ workers'[w].remaining_budget = workers[w].remaining_budget
          /\ workers'[w].puts = workers[w].puts]_vars

\* C27: the ledger check_simulation_progress takes from the queue and stores
\* in self.allocations was produced by the worker thread that the latest
\* click on Run Simulation started.
C27_ResultsBelongToLatestRun ==
    [][(app = "simulation" /\ result_queue # <<>> /\ result_queue' = Tail(result_queue)
        /\ Head(result_queue).kind = "success")
          => (/\ allocations' = Head(result_queue).allocations
              /\ Head(result_queue).from = Len(workers))]_vars

\* What a ledger of the record keeper records for a type, over all its
\* entries.
Recorded(ledger, t) ==
    SumFn([k \in DOMAIN ledger |-> IF t \in DOMAIN ledger[k] THEN ledger[k][t] ELSE 0],
          DOMAIN ledger)

\* C28: when a pass of the record keeper has returned, the availability of
\* every type is its availability at the start of the pass minus what the
\* ledger records for the type, and the ledger records no more than was
\* available at the start.
C28_InventoryConservedAgainstLedger ==
    (app = "expertsystem" /\ pc = "idle" /\ hist.cur.valid /\ hist.cur.done) =>
        \A t \in ES_TYPES :
            /\ resources[t].available =
                  hist.cur.start_available[t] - Recorded(allocated_resources, t)
            /\ Recorded(allocated_resources, t) <= hist.cur.start_available[t]

\* C29: a step that adds a household appends it to the stored households,
\* which stay as they were, creates one new and empty ledger entry, and
\* leaves every ledger entry that existed as it was.
C29_AddChangesNothingExisting ==
    [][(app = "expertsystem" /\ Len(households') = Len(households) + 1) =>
          /\ SubSeq(households', 1, Len(households)) = households
          /\ \A k \in DOMAIN allocated_resources :
                /\ k \in DOMAIN allocated_resources'
                /\ allocated_resources'[k] = allocated_resources[k]
          /\ LET new == households'[Len(households')].id
             IN  /\ DOMAIN allocated_resources' = DOMAIN allocated_resources \cup {new}
                 /\ new \notin DOMAIN allocated_resources
                 /\ allocated_resources'[new] = EmptyAlloc]_vars

\* The ledgers of the simulator: the one each worker thread is building,
\* those on the result queue, the one on display and those of the history.
SimLedgers ==
    {workers[w].allocations : w \in 1..Len(workers)}
       \cup {result_queue[k].allocations : k \in 1..Len(result_queue)}
       \cup {allocations}
       \cup {p.ledger : p \in FinishedPasses}

\* C30: in every ledger of the simulator the k-th record appended, counting
\* from 0, has waiting time k, and no household has two records.
C30_WaitingTimeIsPosition ==
   [](app = "simulation" =>
          \A ledger \in SimLedgers :
              /\ \A k \in 1..Len(ledger) : ledger[k].waiting_time = k - 1
              /\ \A i, j \in 1..Len(ledger) :
                    i # j => ledger[i].household_id # ledger[j].household_id)

\* A ledger of two records or more is on display, its last record being
\* that of a household that was served nothing.
C30_Witness ==
    /\ app = "simulation"
    /\ Len(allocations) >= 2
    /\ allocations[Len(allocations)].total_cost = 0
    /\ allocations[Len(allocations)].waiting_time = Len(allocations) - 1

====
